---- MODULE Spec2Model ----
(***************************************************************************)
(* A model of the limit order book of lob-rs (src/src/lib.rs,              *)
(* src/src/primitives.rs): the two Limits sides with their level arenas,   *)
(* the order map, the spread, and the public operations add_order,         *)
(* cancel_order, find_and_fill_best_orders and fill_market_order.          *)
(*                                                                         *)
(* Conventions.  Option<T> is a sequence of length at most one: None is    *)
(* <<>> and Some(x) is <<x>>.  A LevelIndex i of the source (0-based) is   *)
(* the position i+1 in the sequence `levels'.  A HashMap is a function on  *)
(* its key set.  Prices are the positive integers 1..MaxPrice, on which    *)
(* the bit-pattern order of Price::cmp agrees with the numeric order.      *)
(* LimitOrder.filled_volume is only ever read through unwrap_or(ZERO), so  *)
(* None and Some(0) are both the number 0.  Level.index and the timestamp  *)
(* are never read by the operations and are left out.                      *)
(***************************************************************************)
EXTENDS Integers, Sequences, FiniteSets, TLC

\* ------------------------------------------------------------------ bounds
MaxOrders == 4
MaxPrice == 2
MaxVolume == 2
MaxSweepVolume == 3
MaxEngineOrders == 3

Oids == 1..MaxOrders
Prices == 1..MaxPrice
Volumes == 1..MaxVolume
OrderSide == {"Buy", "Sell"}

\* ------------------------------------------------------------------ Option
None == <<>>
Some(x) == <<x>>
IsNone(o) == o = <<>>
IsSome(o) == o # <<>>
Unwrap(o) == o[1]

\* ------------------------------------------------------------------ HashMap
MapInsert(m, k, v) == [x \in (DOMAIN m) \cup {k} |-> IF x = k THEN v ELSE m[x]]
MapRemove(m, k) == [x \in (DOMAIN m) \ {k} |-> m[x]]
MapGet(m, k) == IF k \in DOMAIN m THEN Some(m[k]) ELSE None
EmptyMap == [x \in {} |-> 0]

\* ------------------------------------------------------------------ Volume
\* u64 subtraction; a negative value marks an underflow of the source
VolumeSub(a, b) == a - b
VolumeMin(a, b) == IF a <= b THEN a ELSE b

\* ------------------------------------------------------------------ orders
LimitOrderNew(id, side, price, volume) ==
    [id |-> id, side |-> side, price |-> price, volume |-> volume,
     filled_volume |-> 0]

\* order.volume - order.filled_volume.unwrap_or(Volume::ZERO)
Remaining(order) == VolumeSub(order.volume, order.filled_volume)

\* ------------------------------------------------------------------ Level
LevelNew(price) == [price |-> price, total_volume |-> 0, orders |-> <<>>]

\* mutant: the id is queued at the front (push_front for push_back)
LevelAddOrderFront(level, order) ==
    [level EXCEPT !.total_volume = @ + order.volume,
                  !.orders = <<order.id>> \o @]

LevelAddOrder(level, order) ==
    [level EXCEPT !.total_volume = @ + order.volume,
                  !.orders = Append(@, order.id)]

LevelReduceVolume(level, volume) ==
    [level EXCEPT !.total_volume = VolumeSub(@, volume)]

\* ------------------------------------------------------------------ Limits
LimitsDefault ==
    [levels |-> <<>>, level_map |-> EmptyMap, removed_levels |-> EmptyMap,
     best |-> None]

\* Levels::get: None when the index is outside the arena
LevelsGet(levels, index) ==
    IF index \in 1..Len(levels) THEN Some(levels[index]) ELSE None

LimitsGetBestLimit(lim) ==
    IF IsSome(lim.best)
    THEN IF IsSome(LevelsGet(lim.levels, Unwrap(lim.best)))
         THEN Some(lim.levels[Unwrap(lim.best)].price)
         ELSE None
    ELSE None

\* mutant: a fresh level always becomes the best
BestAfterNewLevelAlways(lim, order, index) == Some(index)

\* the best pointer after a fresh level `index' was allocated for `order'
BestAfterNewLevel(lim, order, index) ==
    IF IsSome(lim.best)
    THEN IF IsSome(LevelsGet(lim.levels, Unwrap(lim.best)))
         THEN LET best_level == lim.levels[Unwrap(lim.best)]
              IN IF order.side = "Buy"
                 THEN IF order.price > best_level.price
                      THEN Some(index) ELSE lim.best
                 ELSE IF order.price < best_level.price
                      THEN Some(index) ELSE lim.best
         ELSE lim.best
    ELSE Some(index)

\* mutant: the revived price is not taken out of removed_levels
LimitsReviveKeep(lim, price) ==
    IF price \in DOMAIN lim.removed_levels
    THEN [lim EXCEPT !.level_map = MapInsert(@, price, lim.removed_levels[price])]
    ELSE lim

\* mutant: a drained level is never revived
LimitsReviveNever(lim, price) == lim

\* removed_levels.remove(price) followed by level_map.insert(price, index)
LimitsRevive(lim, price) ==
    IF price \in DOMAIN lim.removed_levels
    THEN [lim EXCEPT !.level_map = MapInsert(@, price, lim.removed_levels[price]),
                     !.removed_levels = MapRemove(@, price)]
    ELSE lim

LimitsAddOrder(lim0, order) ==
    LET lim == LimitsRevive(lim0, order.price)
    IN IF order.price \notin DOMAIN lim.level_map
       THEN LET index == Len(lim.levels) + 1
                level == LevelAddOrder(LevelNew(order.price), order)
            IN [lim EXCEPT !.levels = Append(@, level),
                           !.level_map = MapInsert(@, order.price, index),
                           !.best = BestAfterNewLevel(lim, order, index)]
       ELSE LET index == lim.level_map[order.price]
            IN IF index \in 1..Len(lim.levels)
               THEN [lim EXCEPT !.levels[index] = LevelAddOrder(@, order)]
               ELSE lim

\* the sequence `fifo' without the entries equal to `id'
RECURSIVE Without(_, _)
Without(fifo, id) ==
    IF fifo = <<>> THEN <<>>
    ELSE IF Head(fifo) = id THEN Without(Tail(fifo), id)
    ELSE <<Head(fifo)>> \o Without(Tail(fifo), id)

\* mutant: the cancelled id is taken out of its level's FIFO at once
LimitsCancelOrderEager(lim, order) ==
    IF order.price \in DOMAIN lim.level_map
          /\ lim.level_map[order.price] \in 1..Len(lim.levels)
    THEN LET index == lim.level_map[order.price]
             reduced_level ==
                 LevelReduceVolume(lim.levels[index], Remaining(order))
             level == [reduced_level EXCEPT !.orders = Without(@, order.id)]
             reduced == [lim EXCEPT !.levels[index] = level]
         IN IF level.total_volume = 0
            THEN [reduced EXCEPT
                    !.best = IF lim.best = Some(index) THEN None ELSE @,
                    !.level_map = MapRemove(@, order.price),
                    !.removed_levels = MapInsert(@, order.price, index)]
            ELSE reduced
    ELSE lim

\* mutant: the level is reduced by the order's whole volume
LimitsCancelOrderWholeVolume(lim, order) ==
    IF order.price \in DOMAIN lim.level_map
          /\ lim.level_map[order.price] \in 1..Len(lim.levels)
    THEN LET index == lim.level_map[order.price]
             level == LevelReduceVolume(lim.levels[index], order.volume)
             reduced == [lim EXCEPT !.levels[index] = level]
         IN IF level.total_volume = 0
            THEN [reduced EXCEPT
                    !.best = IF lim.best = Some(index) THEN None ELSE @,
                    !.level_map = MapRemove(@, order.price),
                    !.removed_levels = MapInsert(@, order.price, index)]
            ELSE reduced
    ELSE lim

LimitsCancelOrder(lim, order) ==
    IF order.price \in DOMAIN lim.level_map
          /\ lim.level_map[order.price] \in 1..Len(lim.levels)
    THEN LET index == lim.level_map[order.price]
             level == LevelReduceVolume(lim.levels[index], Remaining(order))
             reduced == [lim EXCEPT !.levels[index] = level]
         IN IF level.total_volume = 0
            THEN [reduced EXCEPT
                    !.best = IF lim.best = Some(index) THEN None ELSE @,
                    !.level_map = MapRemove(@, order.price),
                    !.removed_levels = MapInsert(@, order.price, index)]
            ELSE reduced
    ELSE lim

\* ------------------------------------------------------------------ OrderBook
\* mutant: a new book starts with a spread of zero
OrderBookDefaultZeroSpread ==
    [bids |-> LimitsDefault, asks |-> LimitsDefault, orders |-> EmptyMap,
     spread |-> Some(0)]

OrderBookDefault ==
    [bids |-> LimitsDefault, asks |-> LimitsDefault, orders |-> EmptyMap,
     spread |-> None]

UpdateSpreads(book) ==
    LET ask_best_limit == LimitsGetBestLimit(book.asks)
        bid_best_limit == LimitsGetBestLimit(book.bids)
    IN IF IsSome(ask_best_limit) /\ IsSome(bid_best_limit)
       THEN [book EXCEPT !.spread =
                Some(Unwrap(ask_best_limit) - Unwrap(bid_best_limit))]
       ELSE [book EXCEPT !.spread = None]

\* the arena positions of the levels with total_volume > 0
WithVolume(lim) ==
    {i \in 1..Len(lim.levels) : lim.levels[i].total_volume > 0}

UpdateBestBuy(bids) ==
    IF WithVolume(bids) = {}
    THEN bids
    ELSE LET max == CHOOSE i \in WithVolume(bids) :
                      \A j \in WithVolume(bids) :
                        bids.levels[j].price <= bids.levels[i].price
         IN [bids EXCEPT !.best = MapGet(bids.level_map, bids.levels[max].price)]

UpdateBestSell(asks) ==
    IF WithVolume(asks) = {}
    THEN asks
    ELSE LET min == CHOOSE i \in WithVolume(asks) :
                      \A j \in WithVolume(asks) :
                        asks.levels[j].price >= asks.levels[i].price
         IN [asks EXCEPT !.best = MapGet(asks.level_map, asks.levels[min].price)]

OrderBookAddOrder(book, order) ==
    LET placed == IF order.side = "Buy"
                  THEN [book EXCEPT !.bids = LimitsAddOrder(@, order)]
                  ELSE [book EXCEPT !.asks = LimitsAddOrder(@, order)]
    IN UpdateSpreads([placed EXCEPT !.orders = MapInsert(@, order.id, order)])

\* mutant: the order is looked up with get, not remove, and stays in the map
OrderBookCancelOrderKeep(book, order_id) ==
    IF order_id \notin DOMAIN book.orders
    THEN [book |-> book, res |-> [kind |-> "NotFound", order_id |-> order_id]]
    ELSE LET order == book.orders[order_id]
         IN [book |-> IF order.side = "Buy"
                      THEN [book EXCEPT !.bids = LimitsCancelOrder(@, order)]
                      ELSE [book EXCEPT !.asks = LimitsCancelOrder(@, order)],
             res |-> [kind |-> "Cancelled", order_id |-> order_id]]

OrderBookCancelOrder(book, order_id) ==
    IF order_id \notin DOMAIN book.orders
    THEN [book |-> book, res |-> [kind |-> "NotFound", order_id |-> order_id]]
    ELSE LET order == book.orders[order_id]
             removed == [book EXCEPT !.orders = MapRemove(@, order_id)]
         IN [book |-> IF order.side = "Buy"
                      THEN [removed EXCEPT !.bids = LimitsCancelOrder(@, order)]
                      ELSE [removed EXCEPT !.asks = LimitsCancelOrder(@, order)],
             res |-> [kind |-> "Cancelled", order_id |-> order_id]]

GetVolumeAtLimit(book, limit, side) ==
    LET limit_map == IF side = "Buy" THEN book.bids ELSE book.asks
    IN IF limit \in DOMAIN limit_map.level_map
       THEN Some(limit_map.levels[limit_map.level_map[limit]].total_volume)
       ELSE None

\* the ids a `while let Some(id) = level.orders.front()' loop pops because
\* they are missing from the order map
RECURSIVE StalePrefix(_, _)
StalePrefix(fifo, orders) ==
    IF fifo # <<>> /\ Head(fifo) \notin DOMAIN orders
    THEN 1 + StalePrefix(Tail(fifo), orders)
    ELSE 0

DropFront(fifo, n) == SubSeq(fifo, n + 1, Len(fifo))

\* ------------------------------------------------------------------ matching
\* the Fill built at lib.rs 515-528 from the two orders at the FIFO heads
MakeFill(buy_order, sell_order) ==
    [kind |-> "Fill",
     buy_order_id |-> buy_order.id,
     sell_order_id |-> sell_order.id,
     buy_order_price |-> buy_order.price,
     sell_order_price |-> sell_order.price,
     volume |-> VolumeMin(Remaining(buy_order), Remaining(sell_order))]

\* a level after the fill of `volume' against the order at its FIFO head:
\* popped when the order is completely filled, reduced otherwise
\* mutant: the partially filled order's level keeps its total_volume
LevelAfterFillNoReduce(level, order, volume) ==
    IF Remaining(order) = volume
    THEN [level EXCEPT !.orders = Tail(@)]
    ELSE level

LevelAfterFill(level, order, volume) ==
    IF Remaining(order) = volume
    THEN [level EXCEPT !.orders = Tail(@)]
    ELSE LevelReduceVolume(level, volume)

\* find_and_fill: the book it leaves and the value it returns.  `popped' is
\* the number of stale ids the call popped from the two FIFOs.
FindAndFill(book) ==
    LET unchanged(kind) == [book |-> book, res |-> [kind |-> kind],
                            popped |-> 0]
    IN IF IsNone(book.bids.best) \/ IsNone(book.asks.best)
       THEN unchanged("NoOrderToMatch")
       ELSE
       LET bi == Unwrap(book.bids.best)
           si == Unwrap(book.asks.best)
       IN IF IsNone(LevelsGet(book.bids.levels, bi))
             \/ IsNone(LevelsGet(book.asks.levels, si))
          THEN unchanged("NoOrderToMatch")
          ELSE
          LET best_buy_level == book.bids.levels[bi]
              best_sell_level == book.asks.levels[si]
          IN IF best_buy_level.total_volume = 0
                \/ best_sell_level.total_volume = 0
             THEN unchanged("LevelHasNoValidOrders")
             ELSE IF best_buy_level.price < best_sell_level.price
             THEN unchanged("NoOrderToMatch")
             ELSE
             LET nb == StalePrefix(best_buy_level.orders, book.orders)
                 buy_fifo == DropFront(best_buy_level.orders, nb)
                 ns == StalePrefix(best_sell_level.orders, book.orders)
                 sell_fifo == DropFront(best_sell_level.orders, ns)
             IN IF buy_fifo = <<>>
                THEN [book |-> [book EXCEPT !.bids.levels[bi].orders = buy_fifo],
                      res |-> [kind |-> "NoOrderToMatch"],
                      popped |-> nb]
                ELSE IF sell_fifo = <<>>
                THEN [book |-> [book EXCEPT
                                  !.bids.levels[bi].orders = buy_fifo,
                                  !.asks.levels[si].orders = sell_fifo],
                      res |-> [kind |-> "NoOrderToMatch"],
                      popped |-> nb + ns]
                ELSE
                LET buy_order == book.orders[Head(buy_fifo)]
                    sell_order == book.orders[Head(sell_fifo)]
                    fill == MakeFill(buy_order, sell_order)
                    buy_level == LevelAfterFill(
                        [best_buy_level EXCEPT !.orders = buy_fifo],
                        buy_order, fill.volume)
                    sell_level == LevelAfterFill(
                        [best_sell_level EXCEPT !.orders = sell_fifo],
                        sell_order, fill.volume)
                IN [book |-> [book EXCEPT !.bids.levels[bi] = buy_level,
                                          !.asks.levels[si] = sell_level],
                    res |-> fill,
                    popped |-> nb + ns]

\* mutant: the filled orders are neither removed from the map nor updated
RemoveOrUpdateNothing(book, id, side, volume) == book

\* one half of remove_or_update_filled_orders: the order `id' of side `side'
\* is removed from the map and cancelled on its side when the fill completes
\* it, and gets the fill added to its filled_volume otherwise
RemoveOrUpdate(book, id, side, volume) ==
    IF id \notin DOMAIN book.orders
    THEN book
    ELSE LET order == book.orders[id]
         IN IF Remaining(order) = volume
            THEN LET removed == [book EXCEPT !.orders = MapRemove(@, id)]
                 IN IF side = "Buy"
                    THEN [removed EXCEPT !.bids = LimitsCancelOrder(@, order)]
                    ELSE [removed EXCEPT !.asks = LimitsCancelOrder(@, order)]
            ELSE [book EXCEPT !.orders[id].filled_volume = @ + volume]

RemoveOrUpdateFilledOrders(book, fill) ==
    RemoveOrUpdate(
        RemoveOrUpdate(book, fill.buy_order_id, "Buy", fill.volume),
        fill.sell_order_id, "Sell", fill.volume)

\* update_best_sell / update_best_buy, each run only when its side's best
\* is None (lib.rs 411-417)
RefreshBests(book) ==
    LET a == IF IsNone(book.asks.best)
             THEN [book EXCEPT !.asks = UpdateBestSell(@)] ELSE book
    IN IF IsNone(a.bids.best)
       THEN [a EXCEPT !.bids = UpdateBestBuy(@)] ELSE a

FindAndFillBestOrders(book) ==
    LET found == FindAndFill(book)
    IN IF found.res.kind # "Fill"
       THEN found
       ELSE [found EXCEPT !.book =
                UpdateSpreads(RefreshBests(
                    RemoveOrUpdateFilledOrders(found.book, found.res)))]

\* ------------------------------------------------------------------ market orders
\* The body shared by fill_sell_market_order_from_buy_level and
\* fill_buy_market_order_from_sell_level: both read self.bids.levels.
\* `err' is TRUE when the source returns Err(NoOrderToMatch).
FillFromBidsLevel(book, market_order, level_index) ==
    IF IsNone(LevelsGet(book.bids.levels, level_index))
    THEN [book |-> book, err |-> TRUE, res |-> [kind |-> "NoOrderToMatch"],
          popped |-> 0]
    ELSE
    LET level == book.bids.levels[level_index]
        n == StalePrefix(level.orders, book.orders)
        fifo == DropFront(level.orders, n)
    IN IF fifo = <<>>
       THEN [book |-> [book EXCEPT !.bids.levels[level_index].orders = fifo],
             err |-> TRUE, res |-> [kind |-> "NoOrderToMatch"], popped |-> n]
       ELSE
       LET limit_order == book.orders[Head(fifo)]
           remaining_limit_volume == Remaining(limit_order)
           fill == [kind |-> "FillAtMarket",
                    market_order_id |-> market_order.id,
                    order_id |-> limit_order.id,
                    order_price |-> limit_order.price,
                    filled_volume |-> remaining_limit_volume]
           filled == [book EXCEPT !.orders[limit_order.id].filled_volume =
                                    @ + remaining_limit_volume]
       IN IF remaining_limit_volume <= market_order.volume
          THEN [book |-> [filled EXCEPT
                            !.bids.levels[level_index].orders = Tail(fifo)],
                err |-> FALSE, res |-> fill, popped |-> n]
          ELSE [book |-> [filled EXCEPT
                            !.bids.levels[level_index] =
                                LevelReduceVolume(
                                    [level EXCEPT !.orders = fifo],
                                    remaining_limit_volume)],
                err |-> FALSE, res |-> fill, popped |-> n]

FillSellMarketOrderFromBuyLevel(book, market_order, level_index) ==
    FillFromBidsLevel(book, market_order, level_index)

FillBuyMarketOrderFromSellLevel(book, market_order, level_index) ==
    FillFromBidsLevel(book, market_order, level_index)

\* the value of a call that ended in panic!("OrderBook is corrupted")
Panic(book, popped) ==
    [book |-> book, res |-> [kind |-> "Panic"], popped |-> popped,
     panic |-> TRUE]

FillSellMarketOrder(book, order) ==
    IF IsNone(book.bids.best)
    THEN [book |-> book, res |-> [kind |-> "NoOrderToMatch"], popped |-> 0,
          panic |-> FALSE]
    ELSE
    LET f == FillSellMarketOrderFromBuyLevel(book, order, Unwrap(book.bids.best))
    IN IF f.err
       THEN Panic(f.book, f.popped)
       ELSE IF f.res.order_id \notin DOMAIN f.book.orders
       THEN Panic(f.book, f.popped)
       ELSE
       LET filled_order == f.book.orders[f.res.order_id]
       IN IF filled_order.volume = filled_order.filled_volume
          THEN LET c == [f.book EXCEPT
                            !.bids = LimitsCancelOrder(@, filled_order)]
               IN [book |-> IF IsNone(c.bids.best)
                            THEN [c EXCEPT !.bids = UpdateBestBuy(@)]
                            ELSE c,
                   res |-> f.res, popped |-> f.popped, panic |-> FALSE]
          ELSE [book |-> f.book, res |-> f.res, popped |-> f.popped,
                panic |-> FALSE]

FillBuyMarketOrder(book, order) ==
    IF IsNone(book.asks.best)
    THEN [book |-> book, res |-> [kind |-> "NoOrderToMatch"], popped |-> 0,
          panic |-> FALSE]
    ELSE
    LET f == FillBuyMarketOrderFromSellLevel(book, order, Unwrap(book.asks.best))
    IN IF f.err
       THEN Panic(f.book, f.popped)
       ELSE IF f.res.order_id \notin DOMAIN f.book.orders
       THEN Panic(f.book, f.popped)
       ELSE
       LET filled_order == f.book.orders[f.res.order_id]
       IN IF filled_order.volume = filled_order.filled_volume
          THEN LET c == [f.book EXCEPT
                            !.asks = LimitsCancelOrder(@, filled_order)]
               IN [book |-> IF IsNone(c.asks.best)
                            THEN [c EXCEPT !.asks = UpdateBestSell(@)]
                            ELSE c,
                   res |-> f.res, popped |-> f.popped, panic |-> FALSE]
          ELSE [book |-> f.book, res |-> f.res, popped |-> f.popped,
                panic |-> FALSE]

\* mutant: a market order is matched against its own side
OrderBookFillMarketOrderOwnSide(book, order) ==
    IF order.side = "Buy"
    THEN FillSellMarketOrder(book, order)
    ELSE FillBuyMarketOrder(book, order)

OrderBookFillMarketOrder(book, order) ==
    IF order.side = "Buy"
    THEN FillBuyMarketOrder(book, order)
    ELSE FillSellMarketOrder(book, order)

\* ------------------------------------------------------------------ MatchingEngine
\* MatchingEngine (examples/matching_engine.rs): #[derive(Default)], with
\* the zero price for both bounds and an empty market-order queue
MatchingEngineDefault ==
    [min_price |-> 0, max_price |-> 0, market_orders |-> <<>>]

\* ------------------------------------------------------------------ state
VARIABLES
    bids,       \* OrderBook.bids
    asks,       \* OrderBook.asks
    orders,     \* OrderBook.orders
    spread,     \* OrderBook.spread
    result,     \* the last call: its name, its arguments and what it returned
    nextId,     \* the next unused id: every limit or market order gets a fresh one
    cancelled,  \* the ids for which cancel_order returned Cancelled
    panicked,   \* the process died in panic!("OrderBook is corrupted")
    sweep,      \* the driver's market order in progress, None when idle
    engine      \* the MatchingEngine around the book: price bounds, market queue

vars ==
    <<bids, asks, orders, spread, result, nextId, cancelled, panicked, sweep,
      engine>>

Book == [bids |-> bids, asks |-> asks, orders |-> orders, spread |-> spread]

SetBook(book) ==
    /\ bids' = book.bids
    /\ asks' = book.asks
    /\ orders' = book.orders
    /\ spread' = book.spread

Init ==
    /\ bids = OrderBookDefault.bids
    /\ asks = OrderBookDefault.asks
    /\ orders = OrderBookDefault.orders
    /\ spread = OrderBookDefault.spread
    /\ result = [op |-> "new", kind |-> "Ok"]
    /\ nextId = 1
    /\ cancelled = {}
    /\ panicked = FALSE
    /\ sweep = None
    /\ engine = MatchingEngineDefault

\* ------------------------------------------------------------------ actions
\* OrderBook::add_order with a fresh id
AddOrder(side, price, volume) ==
    /\ ~panicked
    /\ IsNone(sweep)
    /\ nextId <= MaxOrders
    /\ LET order == LimitOrderNew(nextId, side, price, volume)
       IN /\ SetBook(OrderBookAddOrder(Book, order))
          /\ result' = [op |-> "add_order", kind |-> "Ok", order |-> order]
    /\ nextId' = nextId + 1
    /\ UNCHANGED <<cancelled, panicked, sweep, engine>>

\* OrderBook::cancel_order
CancelOrder(order_id) ==
    /\ ~panicked
    /\ IsNone(sweep)
    /\ LET r == OrderBookCancelOrder(Book, order_id)
       IN /\ SetBook(r.book)
          /\ result' = [op |-> "cancel_order", kind |-> r.res.kind,
                        order_id |-> order_id]
          /\ cancelled' = IF r.res.kind = "Cancelled"
                          THEN cancelled \cup {order_id} ELSE cancelled
    /\ UNCHANGED <<nextId, panicked, sweep, engine>>

\* OrderBook::find_and_fill_best_orders
FindAndFillBest ==
    /\ ~panicked
    /\ IsNone(sweep)
    /\ LET r == FindAndFillBestOrders(Book)
       IN /\ SetBook(r.book)
          /\ result' = [op |-> "find_and_fill_best_orders", fill |-> r.res,
                        kind |-> r.res.kind, popped |-> r.popped]
    /\ UNCHANGED <<nextId, cancelled, panicked, sweep, engine>>

\* OrderBook::fill_market_order with a market order of a fresh id
FillMarketOrder(side, volume) ==
    /\ ~panicked
    /\ IsNone(sweep)
    /\ nextId <= MaxOrders
    /\ LET order == [id |-> nextId, side |-> side, volume |-> volume]
           r == OrderBookFillMarketOrder(Book, order)
       IN /\ SetBook(r.book)
          /\ result' = [op |-> "fill_market_order", fill |-> r.res,
                        kind |-> r.res.kind, popped |-> r.popped,
                        order |-> order]
          /\ panicked' = r.panic
    /\ nextId' = nextId + 1
    /\ UNCHANGED <<cancelled, sweep, engine>>

Next ==
    \/ \E side \in OrderSide, price \in Prices, volume \in Volumes :
         AddOrder(side, price, volume)
    \/ \E order_id \in Oids : CancelOrder(order_id)
    \/ FindAndFillBest
    \/ \E side \in OrderSide, volume \in Volumes : FillMarketOrder(side, volume)

Spec == Init /\ [][Next]_vars

\* ------------------------------------------------------------------ sanity
NoUnderflow ==
    /\ \A i \in 1..Len(bids.levels) : bids.levels[i].total_volume >= 0
    /\ \A i \in 1..Len(asks.levels) : asks.levels[i].total_volume >= 0
    /\ \A id \in DOMAIN orders : orders[id].filled_volume <= orders[id].volume

\* ------------------------------------------------------------------ C1
\* the remaining volume of the ids of `fifo' that are still in the order map
RECURSIVE SumRemaining(_, _)
SumRemaining(fifo, ords) ==
    IF fifo = <<>>
    THEN 0
    ELSE (IF Head(fifo) \in DOMAIN ords THEN Remaining(ords[Head(fifo)]) ELSE 0)
         + SumRemaining(Tail(fifo), ords)

ActiveLevelsConsistent(lim) ==
    \A p \in DOMAIN lim.level_map :
        LET level == lim.levels[lim.level_map[p]]
        IN level.total_volume = SumRemaining(level.orders, orders)

\* C1: in every reachable state, on each side, every level of the active map
\* has total_volume equal to the sum of volume - filled_volume over the ids
\* of its FIFO that are still present in the order map.
C1_LevelVolumeIsSumOfRemaining ==
    ActiveLevelsConsistent(bids) /\ ActiveLevelsConsistent(asks)

\* ------------------------------------------------------------------ C2
\* the resting orders a returned Fill or FillAtMarket names
NamedIds(res) ==
    IF res.kind = "Fill" THEN {res.fill.buy_order_id, res.fill.sell_order_id}
    ELSE IF res.kind = "FillAtMarket" THEN {res.fill.order_id}
    ELSE {}

\* neither cancelled nor fully filled
Live(ords, id) == id \in DOMAIN ords /\ Remaining(ords[id]) > 0

\* resting on the same side at the same price, `a' added before `b'
\* (ids are handed out in submission order)
AheadOf(ords, a, b) ==
    /\ a \in DOMAIN ords /\ b \in DOMAIN ords
    /\ a < b
    /\ ords[a].side = ords[b].side
    /\ ords[a].price = ords[b].price

\* C2: time priority.  No call returns a Fill or FillAtMarket naming an
\* order B as the resting order while an order A of the same side and
\* price, added before B, is still live when the call is made.
C2_TimePriority ==
    [][\A b \in NamedIds(result') :
          \A a \in DOMAIN orders : AheadOf(orders, a, b) => ~Live(orders, a)]_vars

\* reached: a fill named A, left it partially filled, and a later order B
\* of the same side and price is waiting behind it
C2_Witness ==
    \E a \in NamedIds(result) : \E b \in DOMAIN orders :
        /\ AheadOf(orders, a, b)
        /\ Live(orders, a) /\ orders[a].filled_volume > 0
        /\ Live(orders, b)

\* ------------------------------------------------------------------ C3
\* C3: price priority.  Every Fill of find_and_fill_best_orders pairs a buy
\* order whose price is the highest among the live resting buy orders with
\* a sell order whose price is the lowest among the live resting sell
\* orders, as they are when the call is made.
C3_PricePriority ==
    [][result'.kind = "Fill" =>
         \A id \in DOMAIN orders :
            Live(orders, id) =>
               /\ orders[id].side = "Buy" =>
                     orders[id].price <= result'.fill.buy_order_price
               /\ orders[id].side = "Sell" =>
                     orders[id].price >= result'.fill.sell_order_price]_vars

\* ------------------------------------------------------------------ C4
\* the positions of `fifo' that hold a live order
LivePositions(fifo, ords) == {i \in 1..Len(fifo) : Live(ords, fifo[i])}

\* `id' is the first live id of `fifo'
IsFirstLive(fifo, ords, id) ==
    \E i \in LivePositions(fifo, ords) :
        /\ fifo[i] = id
        /\ \A j \in LivePositions(fifo, ords) : i <= j

\* the FIFO of the level a side's best pointer names (empty when unset)
BestFifo(lim) ==
    IF IsSome(lim.best) /\ Unwrap(lim.best) \in 1..Len(lim.levels)
    THEN lim.levels[Unwrap(lim.best)].orders
    ELSE <<>>

\* C4: a Fill of find_and_fill_best_orders names the first live ids of the
\* best bid and best ask FIFOs, carries those orders' own prices, and its
\* volume is the smaller of their remaining volumes, all taken when the
\* call is made.
C4_FillFields ==
    [][result'.kind = "Fill" =>
         LET f == result'.fill
         IN /\ IsFirstLive(BestFifo(bids), orders, f.buy_order_id)
            /\ IsFirstLive(BestFifo(asks), orders, f.sell_order_id)
            /\ f.buy_order_price = orders[f.buy_order_id].price
            /\ f.sell_order_price = orders[f.sell_order_id].price
            /\ f.volume = VolumeMin(Remaining(orders[f.buy_order_id]),
                                    Remaining(orders[f.sell_order_id]))]_vars

\* ------------------------------------------------------------------ C5
InFifo(fifo, id) == \E i \in 1..Len(fifo) : fifo[i] = id

\* what a fill of `v' does to the participating order `id', whose level is
\* `level_after' once the call has returned
OrderAfterFill(id, v, level_after) ==
    IF Remaining(orders[id]) = v
    THEN /\ id \notin DOMAIN orders'
         /\ ~InFifo(level_after.orders, id)
    ELSE /\ id \in DOMAIN orders'
         /\ orders'[id] = [orders[id] EXCEPT !.filled_volume = @ + v]
         /\ InFifo(level_after.orders, id)

\* every level of `lim' but the one at `index' is as it was, and the arena
\* has the same length
OtherLevelsUnchanged(lim, lim_after, index) ==
    /\ Len(lim_after.levels) = Len(lim.levels)
    /\ \A i \in 1..Len(lim.levels) :
          i # index => lim_after.levels[i] = lim.levels[i]

\* C5: conservation of volume.  A Fill of volume v lowers the total_volume
\* of the best bid level and of the best ask level by exactly v; each of the
\* two orders is removed from its FIFO and from the order map when v is its
\* remaining volume and has v added to its filled_volume otherwise; no other
\* order and no other level changes.
C5_FillConservesVolume ==
    [][result'.kind = "Fill" =>
         LET f == result'.fill
             bi == Unwrap(bids.best)
             si == Unwrap(asks.best)
         IN /\ bids'.levels[bi].total_volume =
                  bids.levels[bi].total_volume - f.volume
            /\ asks'.levels[si].total_volume =
                  asks.levels[si].total_volume - f.volume
            /\ OrderAfterFill(f.buy_order_id, f.volume, bids'.levels[bi])
            /\ OrderAfterFill(f.sell_order_id, f.volume, asks'.levels[si])
            /\ \A id \in DOMAIN orders \ {f.buy_order_id, f.sell_order_id} :
                  id \in DOMAIN orders' /\ orders'[id] = orders[id]
            /\ DOMAIN orders' \subseteq DOMAIN orders
            /\ OtherLevelsUnchanged(bids, bids', bi)
            /\ OtherLevelsUnchanged(asks, asks', si)]_vars

\* reached: a Fill between two orders of equal remaining volume, which
\* removed both orders and left both levels in removed_levels
C5_Witness ==
    /\ result.kind = "Fill"
    /\ result.fill.volume > 0
    /\ result.fill.volume < MaxVolume
    /\ result.fill.buy_order_id \notin DOMAIN orders
    /\ result.fill.sell_order_id \notin DOMAIN orders
    /\ \E p \in DOMAIN bids.removed_levels :
          p = result.fill.buy_order_price
    /\ \E p \in DOMAIN asks.removed_levels :
          p = result.fill.sell_order_price

\* ------------------------------------------------------------------ C6
\* C6: a FillAtMarket carries min(remaining volume of the limit order it
\* names, volume of the market order); it never exceeds the market order.
C6_MarketFillVolume ==
    [][result'.kind = "FillAtMarket" =>
         /\ result'.fill.filled_volume =
               VolumeMin(Remaining(orders[result'.fill.order_id]),
                         result'.order.volume)
         /\ result'.fill.filled_volume <= result'.order.volume]_vars

\* ------------------------------------------------------------------ C7
Opposite(side) == IF side = "Buy" THEN "Sell" ELSE "Buy"

SideOf(side, b, a) == IF side = "Buy" THEN b ELSE a

OrdersOfSide(ords, side) ==
    [id \in {i \in DOMAIN ords : ords[i].side = side} |-> ords[id]]

\* C7: fill_market_order consumes only the opposing side.  The limit order
\* a FillAtMarket names rests on the side opposite to the market order, in
\* the FIFO of that side's best level, and the call leaves the levels, maps,
\* best pointer and orders of the market order's own side as they were.
C7_MarketConsumesOpposingSide ==
    [][result'.op = "fill_market_order" /\ result'.kind # "Panic" =>
         LET own == result'.order.side
         IN /\ SideOf(own, bids', asks') = SideOf(own, bids, asks)
            /\ OrdersOfSide(orders', own) = OrdersOfSide(orders, own)
            /\ result'.kind = "FillAtMarket" =>
                  /\ orders[result'.fill.order_id].side = Opposite(own)
                  /\ InFifo(BestFifo(SideOf(Opposite(own), bids, asks)),
                            result'.fill.order_id)]_vars

\* ------------------------------------------------------------------ C8
\* the arena position of the level of `lim' at `price'
LevelAt(lim, price) ==
    CHOOSE i \in 1..Len(lim.levels) : lim.levels[i].price = price

\* best is the extremum among the levels with positive volume, None when
\* there is none
BestIsExtremum(lim, side) ==
    IF WithVolume(lim) = {}
    THEN IsNone(lim.best)
    ELSE /\ IsSome(lim.best)
         /\ Unwrap(lim.best) \in WithVolume(lim)
         /\ \A j \in WithVolume(lim) :
               IF side = "Buy"
               THEN lim.levels[j].price <= lim.levels[Unwrap(lim.best)].price
               ELSE lim.levels[j].price >= lim.levels[Unwrap(lim.best)].price

\* C8: after a FillAtMarket of volume v against the limit order L, the
\* total_volume of L's level is v lower; L is gone from the level FIFO and
\* from the order map when it is fully filled, and otherwise is at the FIFO
\* head with v added to its filled_volume; a level whose total_volume
\* reached 0 is in removed_levels and the side's best is the extremum of the
\* levels that still have volume.
C8_MarketFillUpdatesBook ==
    [][result'.kind = "FillAtMarket" =>
         LET L == orders[result'.fill.order_id]
             v == result'.fill.filled_volume
             lim == SideOf(L.side, bids, asks)
             lim_after == SideOf(L.side, bids', asks')
             i == LevelAt(lim, L.price)
         IN /\ lim_after.levels[i].total_volume =
                  lim.levels[i].total_volume - v
            /\ IF Remaining(L) = v
               THEN /\ L.id \notin DOMAIN orders'
                    /\ ~InFifo(lim_after.levels[i].orders, L.id)
               ELSE /\ L.id \in DOMAIN orders'
                    /\ orders'[L.id].filled_volume = L.filled_volume + v
                    /\ lim_after.levels[i].orders # <<>>
                    /\ Head(lim_after.levels[i].orders) = L.id
            /\ lim_after.levels[i].total_volume = 0 =>
                  /\ L.price \in DOMAIN lim_after.removed_levels
                  /\ L.price \notin DOMAIN lim_after.level_map
                  /\ BestIsExtremum(lim_after, L.side)]_vars

\* ------------------------------------------------------------------ C10
\* the position of `id' in `fifo'
PositionOf(fifo, id) == CHOOSE i \in 1..Len(fifo) : fifo[i] = id

\* C10: lazy-cancellation skip.  No Fill or FillAtMarket names an id that
\* was cancelled before the call; the id it names is the first id of its
\* level's FIFO that is still in the order map, and the ids that sat ahead
\* of it are no longer in the FIFO when the call returns.
C10_LazyCancelSkip ==
    [][\A b \in NamedIds(result') :
          /\ b \notin cancelled
          /\ b \in DOMAIN orders
          /\ LET L == orders[b]
                 i == LevelAt(SideOf(L.side, bids, asks), L.price)
                 fifo == SideOf(L.side, bids, asks).levels[i].orders
                 fifo_after == SideOf(L.side, bids', asks').levels[i].orders
             IN /\ InFifo(fifo, b)
                /\ \A j \in 1..(PositionOf(fifo, b) - 1) :
                      /\ fifo[j] \notin DOMAIN orders
                      /\ ~InFifo(fifo_after, fifo[j])]_vars

\* reached: a call that popped cancelled ids from a FIFO head and returned
\* a fill
C10_Witness ==
    /\ result.kind \in {"Fill", "FillAtMarket"}
    /\ result.popped > 0
    /\ cancelled # {}

\* ------------------------------------------------------------------ C9
\* The driver loop of spec 4.6 and 6: one market order is handed to
\* fill_market_order again and again with its residual volume until nothing
\* of it is left or the book answers NoOrderToMatch.
RECURSIVE SumOver(_, _)
SumOver(ids, ords) ==
    IF ids = {}
    THEN 0
    ELSE LET id == CHOOSE i \in ids : TRUE
         IN Remaining(ords[id]) + SumOver(ids \ {id}, ords)

\* the live volume resting on `side'
LiveVolume(ords, side) ==
    SumOver({id \in DOMAIN ords : ords[id].side = side}, ords)

RECURSIVE FilledTotal(_)
FilledTotal(fills) ==
    IF fills = <<>> THEN 0
    ELSE Head(fills).filled_volume + FilledTotal(Tail(fills))

SweepStart(side, volume) ==
    /\ ~panicked
    /\ IsNone(sweep)
    /\ nextId <= MaxOrders
    /\ sweep' = Some([order |-> [id |-> nextId, side |-> side,
                                 volume |-> volume],
                      residual |-> volume,
                      fills |-> <<>>,
                      live0 |-> LiveVolume(orders, Opposite(side)),
                      done |-> FALSE])
    /\ nextId' = nextId + 1
    /\ UNCHANGED <<bids, asks, orders, spread, result, cancelled, panicked,
                   engine>>

SweepStep ==
    /\ ~panicked
    /\ IsSome(sweep)
    /\ ~Unwrap(sweep).done
    /\ LET sw == Unwrap(sweep)
           order == [sw.order EXCEPT !.volume = sw.residual]
           r == OrderBookFillMarketOrder(Book, order)
           left == IF r.res.kind = "FillAtMarket"
                      /\ r.res.filled_volume < sw.residual
                   THEN sw.residual - r.res.filled_volume
                   ELSE 0
       IN /\ SetBook(r.book)
          /\ result' = [op |-> "fill_market_order", fill |-> r.res,
                        kind |-> r.res.kind, popped |-> r.popped,
                        order |-> order]
          /\ panicked' = r.panic
          /\ sweep' =
               IF r.res.kind = "FillAtMarket"
               THEN Some([sw EXCEPT !.fills = Append(@, r.res),
                                    !.residual = left,
                                    !.done = (left = 0)])
               ELSE IF r.res.kind = "NoOrderToMatch"
               THEN Some([sw EXCEPT !.done = TRUE])
               ELSE sweep
    /\ UNCHANGED <<nextId, cancelled, engine>>

SweepEnd ==
    /\ ~panicked
    /\ IsSome(sweep)
    /\ Unwrap(sweep).done
    /\ sweep' = None
    /\ UNCHANGED <<bids, asks, orders, spread, result, nextId, cancelled,
                   panicked, engine>>

NextSweep ==
    \/ \E side \in OrderSide, price \in Prices, volume \in Volumes :
         AddOrder(side, price, volume)
    \/ \E order_id \in Oids : CancelOrder(order_id)
    \/ FindAndFillBest
    \/ \E side \in OrderSide, volume \in 1..MaxSweepVolume :
         SweepStart(side, volume)
    \/ SweepStep
    \/ SweepEnd

SpecSweep == Init /\ [][NextSweep]_vars

\* the fills come best price first (ascending asks for a market buy,
\* descending bids for a market sell) and, at one price, oldest order first
InPriceTimeOrder(side, fills) ==
    \A k \in 1..Len(fills) : \A l \in (k + 1)..Len(fills) :
        /\ IF side = "Buy"
           THEN fills[k].order_price <= fills[l].order_price
           ELSE fills[k].order_price >= fills[l].order_price
        /\ fills[k].order_price = fills[l].order_price =>
              fills[k].order_id < fills[l].order_id

\* C9: market sweep.  The fills of a swept market order come in price-then-
\* time order, no call of the sweep aborts, the fills of a finished sweep
\* total min(market volume, opposing live volume at its start), and when
\* the two are equal no order of the opposing side is left in the order map.
C9_MarketSweep ==
    IsSome(sweep) =>
        LET sw == Unwrap(sweep)
        IN /\ ~panicked
           /\ InPriceTimeOrder(sw.order.side, sw.fills)
           /\ sw.done =>
                 /\ FilledTotal(sw.fills) = VolumeMin(sw.order.volume, sw.live0)
                 /\ sw.order.volume = sw.live0 =>
                       \A id \in DOMAIN orders :
                          orders[id].side # Opposite(sw.order.side)

C12_FilledOrderEvicted ==
    [][/\ \A id \in DOMAIN orders' :
             orders'[id].filled_volume < orders'[id].volume
       /\ (result'.op = "cancel_order"
              /\ result'.order_id \notin DOMAIN orders) =>
             result'.kind = "NotFound"]_vars

\* ------------------------------------------------------------------ C13
\* the active levels of `lim' that hold volume
ActiveWithVolume(lim) ==
    {i \in WithVolume(lim) :
        /\ lim.levels[i].price \in DOMAIN lim.level_map
        /\ lim.level_map[lim.levels[i].price] = i}

BestPointsToExtremum(lim, side) ==
    IsSome(lim.best) =>
        LET b == Unwrap(lim.best)
        IN /\ b \in 1..Len(lim.levels)
           /\ lim.levels[b].price \in DOMAIN lim.level_map
           /\ lim.level_map[lim.levels[b].price] = b
           /\ \A j \in ActiveWithVolume(lim) :
                 IF side = "Buy"
                 THEN lim.levels[j].price <= lim.levels[b].price
                 ELSE lim.levels[j].price >= lim.levels[b].price

\* C13: in every reachable state and on each side, a best that is set points
\* to a level of the active map whose price is the maximum (bids) or the
\* minimum (asks) among the active levels with total_volume > 0.
C13_BestIsExtremum ==
    /\ BestPointsToExtremum(bids, "Buy")
    /\ BestPointsToExtremum(asks, "Sell")

\* ------------------------------------------------------------------ C14
\* no level of `lim' with volume has a price better than `price'
NoBetterLevel(lim, side, price) ==
    \A j \in WithVolume(lim) :
        IF side = "Buy"
        THEN lim.levels[j].price <= price
        ELSE lim.levels[j].price >= price

\* C14: level revival.  When a cancel_order has drained the level of the
\* cancelled order (its price is in removed_levels) and the next call adds
\* an order of volume v at that price on that side, the level is back in
\* level_map at the arena index it had, no level is allocated,
\* get_volume_at_limit(p, side) is v, and the side's best price is p unless
\* a better level with volume exists.
C14_LevelRevival ==
    [][(/\ result.op = "cancel_order"
        /\ result.kind = "Cancelled"
        /\ result'.op = "add_order") =>
         LET o == result'.order
             lim == SideOf(o.side, bids, asks)
             lim_after == SideOf(o.side, bids', asks')
         IN (/\ o.price \in DOMAIN lim.removed_levels
             /\ InFifo(lim.levels[lim.removed_levels[o.price]].orders,
                       result.order_id)) =>
               /\ o.price \in DOMAIN lim_after.level_map
               /\ lim_after.level_map[o.price] = lim.removed_levels[o.price]
               /\ o.price \notin DOMAIN lim_after.removed_levels
               /\ Len(lim_after.levels) = Len(lim.levels)
               /\ GetVolumeAtLimit(Book', o.price, o.side) = Some(o.volume)
               /\ NoBetterLevel(lim_after, o.side, o.price) =>
                     LimitsGetBestLimit(lim_after) = Some(o.price)]_vars

\* ------------------------------------------------------------------ C15
\* the prices of the live resting orders of `side'
LivePrices(ords, side) ==
    {ords[id].price : id \in {i \in DOMAIN ords :
                                 ords[i].side = side /\ Live(ords, i)}}

\* C15: non-crossing at rest.  When find_and_fill_best_orders has returned
\* an error, which ends the driver's matching loop, either one side has no
\* live resting order or every live buy price is strictly below every live
\* sell price.
C15_NonCrossingAtRest ==
    (result.op = "find_and_fill_best_orders" /\ result.kind # "Fill") =>
        \A b \in LivePrices(orders, "Buy") :
            \A s \in LivePrices(orders, "Sell") : b < s

\* ------------------------------------------------------------------ C16
\* MatchingEngine::can_match_orders: both best prices exist and cross
CanMatchOrders(book) ==
    LET best_buy == LimitsGetBestLimit(book.bids)
        best_sell == LimitsGetBestLimit(book.asks)
    IN IF IsSome(best_buy) /\ IsSome(best_sell)
       THEN Unwrap(best_buy) >= Unwrap(best_sell)
       ELSE FALSE

\* C16: matching progress.  A find_and_fill_best_orders call made in a state
\* where get_best_buy() and get_best_sell() both return a price and the best
\* buy is at or above the best sell returns a Fill, never an error.
C16_MatchingProgress ==
    [][(CanMatchOrders(Book) /\ result'.op = "find_and_fill_best_orders") =>
          result'.kind = "Fill"]_vars

\* ------------------------------------------------------------------ C17
\* C17: in the state every public operation leaves behind, the stored
\* spread is the best ask price minus the best bid price when both sides
\* have a best level, and None otherwise.
C17_SpreadMatchesBests ==
    spread = UpdateSpreads(Book).spread

\* ------------------------------------------------------------------ C18
\* the FIFOs of the book that hold `id', as <<side, arena position>>
FifosHolding(id) ==
    {<<"Buy", i>> : i \in {j \in 1..Len(bids.levels) :
                              InFifo(bids.levels[j].orders, id)}}
    \cup {<<"Sell", i>> : i \in {j \in 1..Len(asks.levels) :
                                    InFifo(asks.levels[j].orders, id)}}

\* how many times `id' occurs in `fifo'
Occurrences(fifo, id) == Cardinality({k \in 1..Len(fifo) : fifo[k] = id})

\* C18: every order of the order map has filled_volume <= volume, and its
\* id is in exactly one level FIFO of the book, once: the FIFO of the level
\* at the order's price on the order's side.
C18_OrderInExactlyOneFifo ==
    \A id \in DOMAIN orders :
        LET o == orders[id]
            lim == SideOf(o.side, bids, asks)
        IN /\ o.filled_volume <= o.volume
           /\ \E i \in 1..Len(lim.levels) :
                 /\ lim.levels[i].price = o.price
                 /\ FifosHolding(id) = {<<o.side, i>>}
                 /\ Occurrences(lim.levels[i].orders, id) = 1

\* ------------------------------------------------------------------ C19
\* the prices of the levels of the arena: a level is allocated by the first
\* order at its price and never leaves the arena
ArenaPrices(lim) == {lim.levels[i].price : i \in 1..Len(lim.levels)}

MapsPartitionPrices(lim) ==
    /\ DOMAIN lim.level_map \cap DOMAIN lim.removed_levels = {}
    /\ DOMAIN lim.level_map \cup DOMAIN lim.removed_levels = ArenaPrices(lim)

\* C19: on each side the key sets of level_map and removed_levels are
\* disjoint, and every price that has received an order on that side is a
\* key of exactly one of the two maps.
C19_MapsDisjointPartition ==
    /\ MapsPartitionPrices(bids)
    /\ MapsPartitionPrices(asks)

\* reached: a side with one price revived (active again, a cancelled id
\* still in its FIFO) and another price drained
C19_Witness ==
    \E lim \in {bids, asks} :
        /\ lim.removed_levels # EmptyMap
        /\ \E p \in DOMAIN lim.level_map :
              \E id \in cancelled :
                 InFifo(lim.levels[lim.level_map[p]].orders, id)

\* ------------------------------------------------------------------ C20
ArenaStable(lim, lim_after) ==
    /\ Len(lim_after.levels) >= Len(lim.levels)
    /\ \A i \in 1..Len(lim.levels) :
          lim_after.levels[i].price = lim.levels[i].price
    /\ \A i, j \in 1..Len(lim_after.levels) :
          lim_after.levels[i].price = lim_after.levels[j].price => i = j
    /\ \A p \in DOMAIN lim_after.level_map :
          /\ lim_after.level_map[p] \in 1..Len(lim_after.levels)
          /\ lim_after.levels[lim_after.level_map[p]].price = p
    /\ \A p \in DOMAIN lim_after.removed_levels :
          /\ lim_after.removed_levels[p] \in 1..Len(lim_after.levels)
          /\ lim_after.levels[lim_after.removed_levels[p]].price = p

NotCrossed(book) ==
    \/ IsNone(LimitsGetBestLimit(book.bids))
    \/ IsNone(LimitsGetBestLimit(book.asks))
    \/ Unwrap(LimitsGetBestLimit(book.bids))
          < Unwrap(LimitsGetBestLimit(book.asks))

\* C21: find_and_fill_best_orders called when a side has no best level, or
\* when the best bid price is lower than the best ask price, returns
\* NoOrderToMatch and leaves the order map and both sides (level volumes,
\* FIFOs, maps, best pointers) unchanged.
C21_NoMatchLeavesBook ==
    [][(result'.op = "find_and_fill_best_orders" /\ NotCrossed(Book)) =>
          /\ result'.kind = "NoOrderToMatch"
          /\ UNCHANGED <<bids, asks, orders>>]_vars

\* ------------------------------------------------------------------ C22
\* C22: fill_market_order called when the opposing side has no best level
\* returns the error value NoOrderToMatch: the call does not abort and the
\* book (order map, both sides, spread) is unchanged.
C22_MarketNoOpposingBest ==
    [][(/\ result'.op = "fill_market_order"
        /\ IsNone(SideOf(Opposite(result'.order.side), bids, asks).best)) =>
          /\ result'.kind = "NoOrderToMatch"
          /\ ~panicked'
          /\ UNCHANGED <<bids, asks, orders, spread>>]_vars

\* reached: NoOrderToMatch returned to a market order whose opposing side
\* has no best level while its own side has one
C22_Witness ==
    /\ result.op = "fill_market_order"
    /\ result.kind = "NoOrderToMatch"
    /\ IsNone(SideOf(Opposite(result.order.side), bids, asks).best)
    /\ IsSome(SideOf(result.order.side, bids, asks).best)

EnginePrices == 0..(MaxPrice + 1)

OrderType == {"Market", "Limit"}

\* Order::new_limit / Order::new_market, and a Limit order built without a
\* price (the fields of Order are public)
OrderNew(id, side, kind, price, volume) ==
    [id |-> id, side |-> side, kind |-> kind, price |-> price,
     volume |-> volume]

\* LimitOrder::try_from(&order) of an order of kind Limit with a price
LimitOrderTryFrom(order) ==
    LimitOrderNew(order.id, order.side, Unwrap(order.price), order.volume)

\* mutant: the upper bound is not checked
MatchingEnginePlaceOrderNoMax(eng, book, order) ==
    IF order.kind = "Limit"
    THEN IF IsNone(order.price)
         THEN [engine |-> eng, book |-> book, res |-> "MissingPrice"]
         ELSE IF Unwrap(order.price) < eng.min_price
         THEN [engine |-> eng, book |-> book, res |-> "OrderPriceTooLow"]
         ELSE [engine |-> eng,
               book |-> OrderBookAddOrder(book, LimitOrderTryFrom(order)),
               res |-> "Ok"]
    ELSE [engine |-> [eng EXCEPT !.market_orders = Append(@, order)],
          book |-> book, res |-> "Ok"]

MatchingEnginePlaceOrder(eng, book, order) ==
    IF order.kind = "Limit"
    THEN IF IsNone(order.price)
         THEN [engine |-> eng, book |-> book, res |-> "MissingPrice"]
         ELSE IF Unwrap(order.price) < eng.min_price
         THEN [engine |-> eng, book |-> book, res |-> "OrderPriceTooLow"]
         ELSE IF Unwrap(order.price) > eng.max_price
         THEN [engine |-> eng, book |-> book, res |-> "OrderPriceTooHigh"]
         ELSE [engine |-> eng,
               book |-> OrderBookAddOrder(book, LimitOrderTryFrom(order)),
               res |-> "Ok"]
    ELSE [engine |-> [eng EXCEPT !.market_orders = Append(@, order)],
          book |-> book, res |-> "Ok"]

\* MatchingEngine::set_min_price
SetMinPrice(price) ==
    /\ ~panicked
    /\ IsNone(sweep)
    /\ engine' = [engine EXCEPT !.min_price = price]
    /\ result' = [op |-> "set_min_price", kind |-> "Ok"]
    /\ UNCHANGED <<bids, asks, orders, spread, nextId, cancelled, panicked,
                   sweep>>

\* MatchingEngine::set_max_price
SetMaxPrice(price) ==
    /\ ~panicked
    /\ IsNone(sweep)
    /\ engine' = [engine EXCEPT !.max_price = price]
    /\ result' = [op |-> "set_max_price", kind |-> "Ok"]
    /\ UNCHANGED <<bids, asks, orders, spread, nextId, cancelled, panicked,
                   sweep>>

\* MatchingEngine::place_order of an order with a fresh id
PlaceOrder(side, kind, price, volume) ==
    /\ ~panicked
    /\ IsNone(sweep)
    /\ nextId <= MaxEngineOrders
    /\ LET order == OrderNew(nextId, side, kind, price, volume)
           r == MatchingEnginePlaceOrder(engine, Book, order)
       IN /\ SetBook(r.book)
          /\ engine' = r.engine
          /\ result' = [op |-> "place_order", kind |-> r.res, order |-> order]
    /\ nextId' = nextId + 1
    /\ UNCHANGED <<cancelled, panicked, sweep>>

\* MatchingEngine::match_orders is find_and_fill_best_orders on the book
NextEngine ==
    \/ \E price \in EnginePrices : SetMinPrice(price)
    \/ \E price \in EnginePrices : SetMaxPrice(price)
    \/ \E side \in OrderSide, volume \in Volumes :
         \/ \E price \in {None} \cup {Some(p) : p \in Prices} :
              PlaceOrder(side, "Limit", price, volume)
         \/ PlaceOrder(side, "Market", None, volume)
    \/ FindAndFillBest

SpecEngine == Init /\ [][NextEngine]_vars

\* C24: place_order rejects a Limit order without a price with MissingPrice,
\* one priced below min_price with OrderPriceTooLow and one priced above
\* max_price with OrderPriceTooHigh (the checks in that order), leaving the
\* book and the market-order queue unchanged; an in-bounds Limit order is
\* added to the book, the queue unchanged; a Market order is appended to
\* the tail of the market-order queue and the book is unchanged.
C24_PlaceOrderGuards ==
    [][result'.op = "place_order" =>
         LET o == result'.order
             rejected(err) ==
                 /\ result'.kind = err
                 /\ UNCHANGED <<bids, asks, orders, spread>>
                 /\ engine'.market_orders = engine.market_orders
         IN IF o.kind = "Market"
            THEN /\ result'.kind = "Ok"
                 /\ engine'.market_orders = Append(engine.market_orders, o)
                 /\ UNCHANGED <<bids, asks, orders, spread>>
            ELSE IF IsNone(o.price)
            THEN rejected("MissingPrice")
            ELSE IF Unwrap(o.price) < engine.min_price
            THEN rejected("OrderPriceTooLow")
            ELSE IF Unwrap(o.price) > engine.max_price
            THEN rejected("OrderPriceTooHigh")
            ELSE /\ result'.kind = "Ok"
                 /\ engine'.market_orders = engine.market_orders
                 /\ o.id \notin DOMAIN orders
                 /\ o.id \in DOMAIN orders'
                 /\ orders'[o.id] =
                       LimitOrderNew(o.id, o.side, Unwrap(o.price), o.volume)
                 /\ LET lim == SideOf(o.side, bids', asks')
                        fifo == lim.levels[LevelAt(lim, Unwrap(o.price))].orders
                    IN fifo[Len(fifo)] = o.id]_vars

\* reached: a Limit order rejected for its high price by an engine that
\* holds a queued Market order and a book with a resting order
C24_Witness ==
    /\ result.op = "place_order"
    /\ result.kind = "OrderPriceTooHigh"
    /\ engine.market_orders # <<>>
    /\ orders # EmptyMap

\* ------------------------------------------------------------------ C26
NewBookIsEmpty ==
    /\ IsNone(bids.best)
    /\ IsNone(asks.best)
    /\ LimitsGetBestLimit(bids) = None
    /\ LimitsGetBestLimit(asks) = None
    /\ orders = EmptyMap
    /\ spread = None

\* the order map holds orders, all of them of `side'
OnlySideHasOrders(ords, side) ==
    /\ DOMAIN OrdersOfSide(ords, side) # {}
    /\ DOMAIN OrdersOfSide(ords, Opposite(side)) = {}

\* C26: a newly created book has no best bid, no best ask, an empty order
\* map and no spread; and find_and_fill_best_orders on a book whose orders
\* are all on one side returns NoOrderToMatch and leaves the best price
\* reported for that side as it was.
C26_NewBookAndOneSided ==
    /\ NewBookIsEmpty
    /\ [][\A side \in OrderSide :
            (/\ result'.op = "find_and_fill_best_orders"
             /\ OnlySideHasOrders(orders, side)) =>
               /\ result'.kind = "NoOrderToMatch"
               /\ LimitsGetBestLimit(SideOf(side, bids', asks'))
                     = LimitsGetBestLimit(SideOf(side, bids, asks))]_vars

\* reached: NoOrderToMatch on a book with orders on one side only, whose
\* best price is reported
C26_Witness ==
    /\ result.op = "find_and_fill_best_orders"
    /\ result.kind = "NoOrderToMatch"
    /\ \E side \in OrderSide :
          /\ OnlySideHasOrders(orders, side)
          /\ IsSome(LimitsGetBestLimit(SideOf(side, bids, asks)))

\* ------------------------------------------------------------------ C27
\* C27: Limits::add_order.  An order at a price with an active level is
\* appended to that level's FIFO and best is unchanged.  An order at a price
\* that has no level gets a fresh level at the end of the arena, which
\* becomes best when best was unset, or when the side is Buy and the price
\* is above the best level's price, or when the side is Sell and the price
\* is below it; otherwise best is unchanged.
C27_AddOrderBestRule ==
    [][result'.op = "add_order" =>
         LET o == result'.order
             lim == SideOf(o.side, bids, asks)
             lim_after == SideOf(o.side, bids', asks')
         IN /\ o.price \in DOMAIN lim.level_map =>
                 LET i == lim.level_map[o.price]
                 IN /\ lim_after.levels[i].orders =
                          Append(lim.levels[i].orders, o.id)
                    /\ Len(lim_after.levels) = Len(lim.levels)
                    /\ lim_after.best = lim.best
            /\ o.price \notin ArenaPrices(lim) =>
                 LET i == Len(lim.levels) + 1
                 IN /\ Len(lim_after.levels) = i
                    /\ lim_after.levels[i].price = o.price
                    /\ lim_after.levels[i].orders = <<o.id>>
                    /\ lim_after.level_map[o.price] = i
                    /\ lim_after.best =
                          IF IsNone(lim.best)
                          THEN Some(i)
                          ELSE LET best_price ==
                                      lim.levels[Unwrap(lim.best)].price
                               IN IF \/ o.side = "Buy" /\ o.price > best_price
                                     \/ o.side = "Sell" /\ o.price < best_price
                                  THEN Some(i)
                                  ELSE lim.best]_vars

\* reached: an add_order that allocated a fresh level and left best on an
\* older level
C27_Witness ==
    /\ result.op = "add_order"
    /\ LET lim == SideOf(result.order.side, bids, asks)
       IN /\ Len(lim.levels) >= 2
          /\ lim.levels[Len(lim.levels)].orders = <<result.order.id>>
          /\ IsSome(lim.best)
          /\ Unwrap(lim.best) # Len(lim.levels)

\* ------------------------------------------------------------------ C28
\* C28: cancel_order never modifies a level FIFO.  After a cancel of an id
\* of the order map every FIFO of the book is as it was (an id that was in
\* its level's FIFO is still there, at its position), every level other
\* than the order's keeps its total_volume, the opposite side is unchanged
\* altogether, and every other entry of the order map is unchanged.
C28_CancelFrame ==
    [][(result'.op = "cancel_order" /\ result'.order_id \in DOMAIN orders) =>
         LET o == orders[result'.order_id]
             lim == SideOf(o.side, bids, asks)
             lim_after == SideOf(o.side, bids', asks')
             i == LevelAt(lim, o.price)
         IN /\ Len(lim_after.levels) = Len(lim.levels)
            /\ \A j \in 1..Len(lim.levels) :
                  /\ lim_after.levels[j].orders = lim.levels[j].orders
                  /\ j # i => lim_after.levels[j] = lim.levels[j]
            /\ InFifo(lim.levels[i].orders, o.id) =>
                  /\ InFifo(lim_after.levels[i].orders, o.id)
                  /\ PositionOf(lim_after.levels[i].orders, o.id)
                        = PositionOf(lim.levels[i].orders, o.id)
            /\ SideOf(Opposite(o.side), bids', asks')
                  = SideOf(Opposite(o.side), bids, asks)
            /\ \A id \in DOMAIN orders \ {o.id} :
                  /\ id \in DOMAIN orders'
                  /\ orders'[id] = orders[id]
            /\ DOMAIN orders' = DOMAIN orders \ {o.id}]_vars

\* reached: a cancelled id that sits in its FIFO behind another id
C28_Witness ==
    /\ result.op = "cancel_order"
    /\ result.kind = "Cancelled"
    /\ \E lim \in {bids, asks} : \E i \in 1..Len(lim.levels) :
          /\ InFifo(lim.levels[i].orders, result.order_id)
          /\ PositionOf(lim.levels[i].orders, result.order_id) >= 2

\* ------------------------------------------------------------------ C29
\* the last call was a cancel_order that drained the best level of `side',
\* which cleared best, while another level of the side holds volume
CancelClearedBest(side) ==
    /\ result.op = "cancel_order"
    /\ result.kind = "Cancelled"
    /\ LET lim == SideOf(side, bids, asks)
       IN /\ IsNone(lim.best)
          /\ WithVolume(lim) # {}
          /\ \E i \in 1..Len(lim.levels) :
                /\ InFifo(lim.levels[i].orders, result.order_id)
                /\ lim.levels[i].total_volume = 0
                /\ lim.levels[i].price \in DOMAIN lim.removed_levels

\* C29: best recompute after cancel.  When a cancel has drained a side's
\* best level and cleared best while another level of the side has volume,
\* the next find_and_fill_best_orders, or fill_market_order of the opposite
\* side, does not take the side for empty: a market order is filled, and on
\* return the side's best is the extremum of its levels with volume.
C29_BestRecomputedAfterCancel ==
    [][\A side \in OrderSide :
          (/\ CancelClearedBest(side)
           /\ \/ result'.op = "find_and_fill_best_orders"
              \/ /\ result'.op = "fill_market_order"
                 /\ result'.order.side = Opposite(side)) =>
             /\ result'.op = "fill_market_order" =>
                   result'.kind = "FillAtMarket"
             /\ BestIsExtremum(SideOf(side, bids', asks'), side)]_vars

\* ------------------------------------------------------------------ C30
\* C30: after a find_and_fill_best_orders that returned a Fill, a level of
\* the two matched orders whose total_volume reached 0 is in removed_levels
\* and not in level_map; each side's best is None only when the side has no
\* level with volume and otherwise points to the extremum-priced level with
\* volume; and the spread is the one computed from the new bests.
C30_AfterFillBestsRefreshed ==
    [][(result'.op = "find_and_fill_best_orders" /\ result'.kind = "Fill") =>
         /\ \A side \in OrderSide :
               LET id == IF side = "Buy" THEN result'.fill.buy_order_id
                         ELSE result'.fill.sell_order_id
                   lim == SideOf(side, bids, asks)
                   lim_after == SideOf(side, bids', asks')
                   i == LevelAt(lim, orders[id].price)
               IN /\ lim_after.levels[i].total_volume = 0 =>
                        /\ lim.levels[i].price \in DOMAIN lim_after.removed_levels
                        /\ lim.levels[i].price \notin DOMAIN lim_after.level_map
                  /\ BestIsExtremum(lim_after, side)
         /\ spread' = UpdateSpreads(Book').spread]_vars

\* ------------------------------------------------------------------ C31
\* both bests are set and one of the two best levels has total_volume 0
BestLevelDrained(book) ==
    /\ IsSome(book.bids.best)
    /\ IsSome(book.asks.best)
    /\ \/ book.bids.levels[Unwrap(book.bids.best)].total_volume = 0
       \/ book.asks.levels[Unwrap(book.asks.best)].total_volume = 0

\* C31: LevelHasNoValidOrders is recoverable.  In every state a call of
\* find_and_fill_best_orders returns it exactly when both bests are set and
\* one of the best levels has total_volume 0, and in the state left by a
\* find_and_fill_best_orders that returned it, the call repeated at once
\* does not return it again.  (The repeated call is a step that may leave
\* every variable unchanged, so the property is stated on what the call
\* returns from the current book.)
C31_LevelHasNoValidOrdersRecoverable ==
    /\ ~panicked =>
          (FindAndFillBestOrders(Book).res.kind = "LevelHasNoValidOrders"
              <=> BestLevelDrained(Book))
    /\ (/\ result.op = "find_and_fill_best_orders"
        /\ result.kind = "LevelHasNoValidOrders") =>
          FindAndFillBestOrders(Book).res.kind # "LevelHasNoValidOrders"

\* ------------------------------------------------------------------ C32
\* an id handed out earlier whose order is cancelled or fully filled: it
\* has left the order map, or its filled_volume has reached its volume
Terminal(ords, id) ==
    /\ id < nextId
    /\ id \notin DOMAIN ords \/ Remaining(ords[id]) <= 0

\* C32: order life cycle.  An order's filled_volume only grows, and Filled
\* and Cancelled are terminal: once an id has been cancelled or fully
\* filled, no later call returns a Fill or FillAtMarket that names it, it
\* does not come back into the order map, and its filled_volume does not
\* change.
C32_OrderLifeCycle ==
    [][/\ \A id \in DOMAIN orders \cap DOMAIN orders' :
             orders'[id].filled_volume >= orders[id].filled_volume
       /\ \A id \in Oids :
             Terminal(orders, id) =>
                /\ (/\ result'.op \in {"find_and_fill_best_orders",
                                       "fill_market_order"}
                    /\ result'.kind \in {"Fill", "FillAtMarket"}) =>
                      /\ id \notin NamedIds(result')
                      /\ result'.kind = "FillAtMarket" =>
                            result'.fill.market_order_id # id
                /\ id \in DOMAIN orders' =>
                      /\ id \in DOMAIN orders
                      /\ orders'[id].filled_volume = orders[id].filled_volume]_vars

\* ------------------------------------------------------------------ C33
\* C33: no volume underflow.  Every Volume subtraction of the book is either
\* Level::reduce_volume, whose result is stored in the level's total_volume,
\* or volume - filled_volume of an order of the order map; VolumeSub is the
\* unclamped difference and nothing is added to a level after a subtraction
\* within one call, so a subtrahend larger than its minuend shows as a
\* negative total_volume or a filled_volume above the volume.  Neither
\* occurs in any reachable state.
C33_NoVolumeUnderflow ==
    /\ \A lim \in {bids, asks} :
          \A i \in 1..Len(lim.levels) :
             lim.levels[i].total_volume >= 0
    /\ \A id \in DOMAIN orders : Remaining(orders[id]) >= 0

\* a Fill has left one of its two orders partially filled (its level was
\* reduced by reduce_volume) while a cancel has taken place earlier
C33_Witness ==
    /\ result.op = "find_and_fill_best_orders"
    /\ result.kind = "Fill"
    /\ cancelled # {}
    /\ \E id \in NamedIds(result) :
          /\ id \in DOMAIN orders
          /\ orders[id].filled_volume > 0
          /\ Remaining(orders[id]) > 0

\* ------------------------------------------------------------------ C34
\* C34: a cancel_order of an id that an earlier cancel_order removed
\* returns AlreadyCancelled, and a cancel_order of an id the book has never
\* seen returns NotFound.
C34_AlreadyCancelledDistinct ==
    [][result'.op = "cancel_order" =>
         /\ result'.order_id \in cancelled =>
               result'.kind = "AlreadyCancelled"
         /\ result'.order_id >= nextId => result'.kind = "NotFound"]_vars

\* ------------------------------------------------------------------ C35
\* C35: every Fill and every FillAtMarket the book returns has a volume
\* greater than 0 (all submitted limit and market orders have positive
\* volume).
C35_FillVolumePositive ==
    /\ (result.op = "find_and_fill_best_orders" /\ result.kind = "Fill") =>
          result.fill.volume > 0
    /\ (result.op = "fill_market_order" /\ result.kind = "FillAtMarket") =>
          result.fill.filled_volume > 0

\* ------------------------------------------------------------------ C36
\* the order `id' is live on side `side' when the call is made, sits in the
\* FIFO of that side's best level, and `price' is its price and that
\* level's price
TakenFromBest(ords, lim, side, id, price) ==
    /\ Live(ords, id)
    /\ ords[id].side = side
    /\ ords[id].price = price
    /\ IsSome(lim.best)
    /\ InFifo(lim.levels[Unwrap(lim.best)].orders, id)
    /\ lim.levels[Unwrap(lim.best)].price = price

\* C36: every Fill returned by find_and_fill_best_orders has
\* buy_order_price >= sell_order_price, names as buy_order_id an order that
\* is live on the Buy side and as sell_order_id one that is live on the
\* Sell side, and reports for each the price of the level whose FIFO it was
\* taken from, which is the order's price.
C36_FillWellFormed ==
    [][(result'.op = "find_and_fill_best_orders" /\ result'.kind = "Fill") =>
         LET fill == result'.fill
         IN /\ fill.buy_order_price >= fill.sell_order_price
            /\ TakenFromBest(orders, bids, "Buy",
                             fill.buy_order_id, fill.buy_order_price)
            /\ TakenFromBest(orders, asks, "Sell",
                             fill.sell_order_id, fill.sell_order_price)]_vars

\* ------------------------------------------------------------------ C37
\* when the side's best is set, the FIFO of the best level holds a live order
BestHoldsLiveOrder(ords, lim) ==
    IsSome(lim.best) =>
        \E k \in 1..Len(lim.levels[Unwrap(lim.best)].orders) :
            Live(ords, lim.levels[Unwrap(lim.best)].orders[k])

\* C37: the "OrderBook is corrupted" abort is unreachable.  No
\* fill_market_order call panics, and whenever a side's best is set the
\* FIFO of its best level holds a live order to fill.
C37_NoCorruptionPanic ==
    /\ ~panicked
    /\ result.kind # "Panic"
    /\ BestHoldsLiveOrder(orders, bids)
    /\ BestHoldsLiveOrder(orders, asks)

\* ------------------------------------------------------------------ C38
\* the remaining volume of all the orders of the map
TotalRemaining(ords) == SumOver(DOMAIN ords, ords)

\* the successful call that took `book' to `after' removed at least one
\* order from the order map or strictly reduced the total remaining volume
FillMadeProgress(book, after) ==
    \/ Cardinality(DOMAIN after.orders) < Cardinality(DOMAIN book.orders)
    \/ TotalRemaining(after.orders) < TotalRemaining(book.orders)

\* the driver loop: find_and_fill_best_orders is called again and again on
\* `book' with nothing in between; TRUE when an error is returned after at
\* most `fuel' Fills, each of which made progress
RECURSIVE DriverLoopEnds(_, _)
DriverLoopEnds(book, fuel) ==
    LET r == FindAndFillBestOrders(book)
    IN IF r.res.kind # "Fill"
       THEN TRUE
       ELSE /\ fuel > 0
            /\ FillMadeProgress(book, r.book)
            /\ DriverLoopEnds(r.book, fuel - 1)

\* C38: the driver loop terminates.  From every reachable book, calling
\* find_and_fill_best_orders repeatedly with no other operation in between
\* returns an error after finitely many Fills (at most as many as the
\* orders of the map plus their remaining volume), and every Fill on the
\* way removes an order from the order map or strictly reduces the total
\* remaining volume.
C38_DriverLoopTerminates ==
    ~panicked =>
        DriverLoopEnds(Book, Cardinality(DOMAIN orders)
                                + TotalRemaining(orders))

\* a Fill has been returned and the call repeated at once returns another
C38_Witness ==
    /\ result.op = "find_and_fill_best_orders"
    /\ result.kind = "Fill"
    /\ FindAndFillBestOrders(Book).res.kind = "Fill"
    /\ cancelled # {}

====
